---- MODULE Spec2Model ----
(***************************************************************************)
(* Office CCTV tracking: centroid tracker (models/tracker.py), activity    *)
(* classifier (models/activity_classifier.py), the per-frame event         *)
(* pipeline of run_office_tracking (main.py) and the event log / report    *)
(* rows of DataLogger (utils/data_logger.py).                              *)
(*                                                                         *)
(* Representation                                                          *)
(*   - a person id "Person N" is the number N;                             *)
(*   - a Python string is a TLA+ string; its characters, which the time    *)
(*     parser splits and converts, are given by the table Chars;           *)
(*   - Python None is NoneStr for string-valued fields and NoneNum for     *)
(*     numeric ones;                                                       *)
(*   - a bounding box is <<x1, y1, x2, y2>>; the float centroid of main.py *)
(*     is kept doubled (x1+x2, y1+y2) so that comparisons stay exact;      *)
(*   - a Euclidean distance is compared through its square.                *)
(***************************************************************************)
EXTENDS Integers, Sequences, FiniteSets, TLC

\* ------------------------------------------------------------------------
\* config.py
\* ------------------------------------------------------------------------
MAX_DIST_PERSON == 70
MAX_MISSING_FRAMES == 15
\* SITTING_THRESHOLD_HEIGHT_RATIO = 1.4, kept as the fraction 14/10
SITTING_THRESHOLD_NUM == 14
SITTING_THRESHOLD_DEN == 10
IN_ZONE == <<0, 0, 300, 1224>>
OUT_ZONE == <<780, 0, 1080, 1224>>
IN_TIME_WINDOW_END_SEC == 16
OUT_TIME_WINDOW_START_SEC == 43

NoneStr == "<None>"
NoneNum == -1
NA == "N/A"

\* ------------------------------------------------------------------------
\* Bounds
\* ------------------------------------------------------------------------
\* frames read by the short streams (specifications Spec and SpecMisread)
MaxFrames == 3
\* frames that carry detections in the long streams (specification SpecLong)
MaxLeadFrames == 2

\* frames read by the streams with several persons (specification SpecAssoc)
MaxAssocFrames == 2

\* ------------------------------------------------------------------------
\* Inputs
\* ------------------------------------------------------------------------
\* Readings the OCR collaborator can return (ocr_extractor.extract_time):
\* the sentinel, two well-formed times of day (HH:MM:SS and HH:MM), the
\* documented "HH:MM:SS AM/PM" shape, whose last segment is not an integer,
\* and a misread overlay returned by the fallback of line 126. Chars gives
\* the characters of each.
Chars ==
  [s \in {"N/A", "23:58:00", "00:02", "02:41:08 PM", "29:58:00"} |->
     CASE s = "N/A"         -> <<"N", "/", "A">>
       [] s = "23:58:00"    -> <<"2", "3", ":", "5", "8", ":", "0", "0">>
       [] s = "00:02"       -> <<"0", "0", ":", "0", "2">>
       [] s = "02:41:08 PM" -> <<"0", "2", ":", "4", "1", ":", "0", "8", " ", "P", "M">>
       [] s = "29:58:00"    -> <<"2", "9", ":", "5", "8", ":", "0", "0">>]

\* readings of the short streams
OcrReadings == {"N/A", "23:58:00", "00:02", "02:41:08 PM"}

VideoTimes == {16, 43}

\* boxes: standing inside the IN zone, centroid (100, 600)
BoxInStand == <<50, 500, 150, 700>>
\* sitting, centroid (110, 600): 10 px from BoxInStand
BoxInSit == <<40, 550, 180, 650>>
\* sitting, centroid (780, 600): on the left edge of the OUT zone
BoxOutSit == <<710, 550, 850, 650>>
\* standing, float centroid (779.5, 600), integer centroid (779, 600)
BoxNearOutStand == <<729, 500, 830, 700>>
\* standing, centroid (170, 600): exactly 70 px from BoxInStand
BoxAtCap == <<120, 500, 220, 700>>

\* standing, centroid (50, 600): 50 px from BoxInStand, 120 px from BoxAtCap
BoxLeft == <<0, 500, 100, 700>>
\* standing, centroid (90, 600): as far from BoxInStand as BoxInSit is
BoxTie == <<40, 500, 140, 700>>

Det(b) == [bbox |-> b]

\* ------------------------------------------------------------------------
\* models/tracker.py: _calculate_time_difference_in_seconds
\* ------------------------------------------------------------------------
DigitChars == <<"0", "1", "2", "3", "4", "5", "6", "7", "8", "9">>

IsDigit(c) == \E d \in 1..10 : DigitChars[d] = c

DigitVal(c) == (CHOOSE d \in 1..10 : DigitChars[d] = c) - 1

\* str.split(':')
RECURSIVE SplitColon(_, _, _)
SplitColon(s, cur, acc) ==
  IF s = <<>> THEN Append(acc, cur)
  ELSE IF Head(s) = ":" THEN SplitColon(Tail(s), <<>>, Append(acc, cur))
  ELSE SplitColon(Tail(s), Append(cur, Head(s)), acc)

RECURSIVE StripLeft(_)
StripLeft(s) == IF s # <<>> /\ Head(s) = " " THEN StripLeft(Tail(s)) ELSE s

RECURSIVE StripRight(_)
StripRight(s) ==
  IF s # <<>> /\ s[Len(s)] = " " THEN StripRight(SubSeq(s, 1, Len(s) - 1)) ELSE s

RECURSIVE DigitsValue(_, _)
DigitsValue(s, acc) ==
  IF s = <<>> THEN acc ELSE DigitsValue(Tail(s), acc * 10 + DigitVal(Head(s)))

\* int(p): surrounding blanks are ignored, one sign is allowed, the rest must
\* be one or more decimal digits; anything else raises ValueError (ok = FALSE)
IntOfBody(negative, body) ==
  IF body # <<>> /\ \A i \in 1..Len(body) : IsDigit(body[i])
  THEN [ok |-> TRUE,
        val |-> IF negative THEN 0 - DigitsValue(body, 0) ELSE DigitsValue(body, 0)]
  ELSE [ok |-> FALSE, val |-> 0]

IntOfStripped(t) ==
  IF t # <<>> /\ Head(t) \in {"+", "-"}
  THEN IntOfBody(Head(t) = "-", Tail(t))
  ELSE IntOfBody(FALSE, t)

PyInt(seg) == IntOfStripped(StripRight(StripLeft(seg)))

\* parts = [int(p) for p in time_str.split(':')]
RECURSIVE IntParts(_, _, _)
IntParts(segs, i, parts) ==
  IF i > Len(segs) THEN parts
  ELSE IntParts(segs, i + 1, Append(parts, PyInt(segs[i])))

\* mutant: a segment that is not an integer counts as 0 and the others are
\* still added up
SecondsOfParts_SegmentWise(parts) ==
  IF Len(parts) = 3
  THEN parts[1].val * 3600 + parts[2].val * 60 + parts[3].val
  ELSE IF Len(parts) = 2
       THEN parts[1].val * 3600 + parts[2].val * 60
  ELSE 0

\* lines 14-20 on the converted parts; a ValueError gives 0
SecondsOfParts(parts) ==
  IF \E i \in 1..Len(parts) : ~parts[i].ok THEN 0
  ELSE IF Len(parts) = 3
       THEN parts[1].val * 3600 + parts[2].val * 60 + parts[3].val
  ELSE IF Len(parts) = 2
       THEN parts[1].val * 3600 + parts[2].val * 60
  ELSE 0

parse_time_to_seconds(time_str) ==
  SecondsOfParts(IntParts(SplitColon(time_str, <<>>, <<>>), 1, <<>>))

\* lines 26-29: a negative difference is taken as a rollover past midnight
Rollover(start_sec, end_sec) ==
  IF end_sec < start_sec THEN (end_sec + 24 * 3600) - start_sec
  ELSE end_sec - start_sec

\* mutant: the rollover correction of lines 26-27 is left out
ElapsedChars_NoRollover(start_chars, end_chars) ==
  parse_time_to_seconds(end_chars) - parse_time_to_seconds(start_chars)

ElapsedChars(start_chars, end_chars) ==
  Rollover(parse_time_to_seconds(start_chars), parse_time_to_seconds(end_chars))

\* the table is evaluated once per pair of readings
ElapsedTable ==
  [s \in DOMAIN Chars |-> [e \in DOMAIN Chars |-> ElapsedChars(Chars[s], Chars[e])]]

_calculate_time_difference_in_seconds(start_time_str, end_time_str) ==
  ElapsedTable[start_time_str][end_time_str]

\* ------------------------------------------------------------------------
\* models/activity_classifier.py
\* ------------------------------------------------------------------------
\* mutant: a ratio equal to the threshold counts as sitting (<=)
classify_ThresholdInclusive(bbox) ==
  LET width == bbox[3] - bbox[1]
      height == bbox[4] - bbox[2]
  IN IF width <= 0 \/ height <= 0 THEN "standing"
     ELSE IF height * SITTING_THRESHOLD_DEN <= SITTING_THRESHOLD_NUM * width
          THEN "working"
     ELSE "standing"

classify(bbox) ==
  LET width == bbox[3] - bbox[1]
      height == bbox[4] - bbox[2]
  IN IF width <= 0 \/ height <= 0 THEN "standing"
     ELSE IF height * SITTING_THRESHOLD_DEN < SITTING_THRESHOLD_NUM * width
          THEN "working"
     ELSE "standing"

\* ------------------------------------------------------------------------
\* State
\* ------------------------------------------------------------------------
VARIABLES
  pc,                       \* position in run_office_tracking
  frame_idx,                \* main.py: frames read so far
  det_frames,               \* frames read so far that carried a detection
  detections,               \* the detector's result for the current frame
  ocr_time,                 \* the OCR reading of the current frame
  current_video_time_sec,   \* video time of the current frame
  tracked_persons,          \* PersonTracker.tracked_persons (live list)
  next_person_id,           \* PersonTracker.next_person_id
  tracker_attr_set,         \* PersonTracker has grown the attribute
                            \* current_working_session_start_time (= None)
  events,                   \* DataLogger.events
  console,                  \* session lines printed by tracker.py
  rows,                     \* data_for_df built by export_to_csv
  frames,                   \* history: one record per frame read (inputs,
                            \* persons matched by update, its result)
  call                      \* a function called on its own: its name, its
                            \* arguments and what it returned (NoCall while
                            \* run_office_tracking runs)

vars == <<pc, frame_idx, det_frames, detections, ocr_time,
          current_video_time_sec, tracked_persons, next_person_id,
          tracker_attr_set, events, console, rows, frames, call>>

\* Python truthiness of an optional string
Truthy(s) == s # NoneStr /\ s # ""

\* ------------------------------------------------------------------------
\* models/tracker.py: TrackedPerson
\* ------------------------------------------------------------------------
_get_centroid(bbox) == <<(bbox[1] + bbox[3]) \div 2, (bbox[2] + bbox[4]) \div 2>>

TrackedPerson(id, bbox, initial_cctv_time, initial_frame_time_sec) ==
  [id |-> id,
   bbox |-> bbox,
   centroid |-> _get_centroid(bbox),
   missing_frames |-> 0,
   activity |-> "standing",
   in_time |-> initial_cctv_time,
   in_frame_time_sec |-> initial_frame_time_sec,
   out_time |-> NoneStr,
   out_frame_time_sec |-> NoneNum,
   is_working |-> FALSE,
   current_working_session_start_time |-> NoneStr,
   total_working_seconds |-> 0,
   last_ocr_time |-> initial_cctv_time,
   last_frame_time_sec |-> initial_frame_time_sec]

\* mutant: a matched person is taken to be standing again
update_bbox_ResetsActivity(p, new_bbox, ocr, frame_time_sec) ==
  [p EXCEPT !.bbox = new_bbox,
            !.centroid = _get_centroid(new_bbox),
            !.missing_frames = 0,
            !.activity = "standing",
            !.last_ocr_time = ocr,
            !.last_frame_time_sec = frame_time_sec]

update_bbox(p, new_bbox, ocr, frame_time_sec) ==
  [p EXCEPT !.bbox = new_bbox,
            !.centroid = _get_centroid(new_bbox),
            !.missing_frames = 0,
            !.last_ocr_time = ocr,
            !.last_frame_time_sec = frame_time_sec]

Line(id, text, arg, duration) ==
  [person_id |-> id, line |-> text, arg |-> arg, duration |-> duration]

\* mutant: the test self.activity != new_activity of line 98 is left out
update_activity_Unguarded(p, new_activity, ocr) ==
  IF TRUE
  THEN LET closing == p.is_working /\ Truthy(p.current_working_session_start_time)
           duration == IF closing
                       THEN _calculate_time_difference_in_seconds(
                              p.current_working_session_start_time, ocr)
                       ELSE 0
           p1 == IF closing
                 THEN [p EXCEPT !.total_working_seconds = @ + duration,
                                !.current_working_session_start_time = NoneStr]
                 ELSE p
           p2 == [p1 EXCEPT !.activity = new_activity]
           p3 == IF p2.activity = "working"
                 THEN [p2 EXCEPT !.is_working = TRUE,
                                 !.current_working_session_start_time = ocr]
                 ELSE [p2 EXCEPT !.is_working = FALSE]
       IN [p |-> p3,
           out |-> <<Line(p.id, "Activity changed", new_activity, 0)>> \o
                   (IF closing
                    THEN <<Line(p.id, "Ended working session", ocr, duration)>>
                    ELSE <<>>)]
  ELSE [p |-> p, out |-> <<>>]

\* mutant: a session start left behind is closed again, is_working or not
update_activity_ClosesStale(p, new_activity, ocr) ==
  IF p.activity # new_activity
  THEN LET closing == Truthy(p.current_working_session_start_time)
           duration == IF closing
                       THEN _calculate_time_difference_in_seconds(
                              p.current_working_session_start_time, ocr)
                       ELSE 0
           p1 == IF closing
                 THEN [p EXCEPT !.total_working_seconds = @ + duration,
                                !.current_working_session_start_time = NoneStr]
                 ELSE p
           p2 == [p1 EXCEPT !.activity = new_activity]
           p3 == IF p2.activity = "working"
                 THEN [p2 EXCEPT !.is_working = TRUE,
                                 !.current_working_session_start_time = ocr]
                 ELSE [p2 EXCEPT !.is_working = FALSE]
       IN [p |-> p3,
           out |-> <<Line(p.id, "Activity changed", new_activity, 0)>> \o
                   (IF closing
                    THEN <<Line(p.id, "Ended working session", ocr, duration)>>
                    ELSE <<>>)]
  ELSE [p |-> p, out |-> <<>>]

\* returns the person and the lines it printed
update_activity(p, new_activity, ocr) ==
  IF p.activity # new_activity
  THEN LET closing == p.is_working /\ Truthy(p.current_working_session_start_time)
           duration == IF closing
                       THEN _calculate_time_difference_in_seconds(
                              p.current_working_session_start_time, ocr)
                       ELSE 0
           p1 == IF closing
                 THEN [p EXCEPT !.total_working_seconds = @ + duration,
                                !.current_working_session_start_time = NoneStr]
                 ELSE p
           p2 == [p1 EXCEPT !.activity = new_activity]
           p3 == IF p2.activity = "working"
                 THEN [p2 EXCEPT !.is_working = TRUE,
                                 !.current_working_session_start_time = ocr]
                 ELSE [p2 EXCEPT !.is_working = FALSE]
       IN [p |-> p3,
           out |-> <<Line(p.id, "Activity changed", new_activity, 0)>> \o
                   (IF closing
                    THEN <<Line(p.id, "Ended working session", ocr, duration)>>
                    ELSE <<>>)]
  ELSE [p |-> p, out |-> <<>>]

increment_missing(p) == [p EXCEPT !.missing_frames = @ + 1]

\* mutant: >= instead of >
is_too_old_AtThreshold(p) == p.missing_frames >= MAX_MISSING_FRAMES

is_too_old(p) == p.missing_frames > MAX_MISSING_FRAMES

\* ------------------------------------------------------------------------
\* models/tracker.py: PersonTracker
\* ------------------------------------------------------------------------
\* square of _get_distance
Dist2(c1, c2) ==
  (c1[1] - c2[1]) * (c1[1] - c2[1]) + (c1[2] - c2[2]) * (c1[2] - c2[2])

Inf == -1

\* mutant: a detection at exactly MAX_DIST_PERSON is accepted
RECURSIVE BestMatch_CapInclusive(_, _, _, _, _, _)
BestMatch_CapInclusive(person, dets, matched, j, min_dist, best_match_idx) ==
  IF j > Len(dets) THEN best_match_idx
  ELSE LET dist == Dist2(person.centroid, _get_centroid(dets[j].bbox))
       IN IF ~matched[j]
             /\ (min_dist = Inf \/ dist < min_dist)
             /\ dist <= MAX_DIST_PERSON * MAX_DIST_PERSON
          THEN BestMatch_CapInclusive(person, dets, matched, j + 1, dist, j)
          ELSE BestMatch_CapInclusive(person, dets, matched, j + 1, min_dist,
                                      best_match_idx)

\* mutant: of two detections at the same distance the later one wins (<=)
RECURSIVE BestMatch_LastOfTies(_, _, _, _, _, _)
BestMatch_LastOfTies(person, dets, matched, j, min_dist, best_match_idx) ==
  IF j > Len(dets) THEN best_match_idx
  ELSE LET dist == Dist2(person.centroid, _get_centroid(dets[j].bbox))
       IN IF ~matched[j]
             /\ (min_dist = Inf \/ dist <= min_dist)
             /\ dist < MAX_DIST_PERSON * MAX_DIST_PERSON
          THEN BestMatch_LastOfTies(person, dets, matched, j + 1, dist, j)
          ELSE BestMatch_LastOfTies(person, dets, matched, j + 1, min_dist,
                                    best_match_idx)

\* the inner loop of step 2 (lines 182-189); 0 stands for best_match_idx = -1
RECURSIVE BestMatch(_, _, _, _, _, _)
BestMatch(person, dets, matched, j, min_dist, best_match_idx) ==
  IF j > Len(dets) THEN best_match_idx
  ELSE LET dist == Dist2(person.centroid, _get_centroid(dets[j].bbox))
       IN IF ~matched[j]
             /\ (min_dist = Inf \/ dist < min_dist)
             /\ dist < MAX_DIST_PERSON * MAX_DIST_PERSON
          THEN BestMatch(person, dets, matched, j + 1, dist, j)
          ELSE BestMatch(person, dets, matched, j + 1, min_dist, best_match_idx)

\* mutant: line 205 (person.is_working = False) is left out
Disappeared_StaysWorking(person, ocr) ==
  IF person.is_working /\ Truthy(person.current_working_session_start_time)
  THEN LET session_end_time == IF ocr = NA THEN person.last_ocr_time ELSE ocr
           duration == _calculate_time_difference_in_seconds(
                         person.current_working_session_start_time, session_end_time)
       IN [p |-> [person EXCEPT !.total_working_seconds = @ + duration],
           out |-> <<Line(person.id, "Ended working session due to disappearance",
                          session_end_time, duration)>>,
           attr |-> TRUE]
  ELSE [p |-> person, out |-> <<>>, attr |-> FALSE]

\* mutant: the fallback to the last known time of line 200 is left out
Disappeared_NoFallback(person, ocr) ==
  IF person.is_working /\ Truthy(person.current_working_session_start_time)
  THEN LET duration == _calculate_time_difference_in_seconds(
                         person.current_working_session_start_time, ocr)
       IN [p |-> [person EXCEPT !.total_working_seconds = @ + duration,
                                !.is_working = FALSE],
           out |-> <<Line(person.id, "Ended working session due to disappearance",
                          ocr, duration)>>,
           attr |-> TRUE]
  ELSE [p |-> person, out |-> <<>>, attr |-> FALSE]

\* the else branch of step 2 (lines 195-205): the reset of the session start
\* is made on the tracker object, the person keeps its own
Disappeared(person, ocr) ==
  IF person.is_working /\ Truthy(person.current_working_session_start_time)
  THEN LET session_end_time == IF ocr = NA THEN person.last_ocr_time ELSE ocr
           duration == _calculate_time_difference_in_seconds(
                         person.current_working_session_start_time, session_end_time)
       IN [p |-> [person EXCEPT !.total_working_seconds = @ + duration,
                                !.is_working = FALSE],
           out |-> <<Line(person.id, "Ended working session due to disappearance",
                          session_end_time, duration)>>,
           attr |-> TRUE]
  ELSE [p |-> person, out |-> <<>>, attr |-> FALSE]

\* step 2 and 3 (lines 177-205)
\* (hit collects the ids of the persons that took the match branch)
RECURSIVE Associate(_, _, _, _, _, _, _, _, _)
Associate(persons, i, dets, matched, ocr, vt, out, attr, hit) ==
  IF i > Len(persons)
  THEN [persons |-> persons, matched |-> matched, out |-> out, attr |-> attr,
        hit |-> hit]
  ELSE LET best_match_idx == BestMatch(persons[i], dets, matched, 1, Inf, 0)
       IN IF best_match_idx # 0
          THEN Associate(
                 [persons EXCEPT ![i] =
                    update_bbox(@, dets[best_match_idx].bbox, ocr, vt)],
                 i + 1, dets, [matched EXCEPT ![best_match_idx] = TRUE],
                 ocr, vt, out, attr, hit \cup {persons[i].id})
          ELSE LET d == Disappeared(persons[i], ocr)
               IN Associate([persons EXCEPT ![i] = d.p], i + 1, dets, matched,
                            ocr, vt, out \o d.out, attr \/ d.attr, hit)

\* mutant: line 213 (self.next_person_id += 1) is left out
RECURSIVE Spawn_NoIncrement(_, _, _, _, _, _, _)
Spawn_NoIncrement(persons, next_id, dets, matched, j, ocr, vt) ==
  IF j > Len(dets) THEN [persons |-> persons, next_id |-> next_id]
  ELSE IF ~matched[j]
       THEN Spawn_NoIncrement(
              Append(persons, TrackedPerson(next_id, dets[j].bbox, ocr, vt)),
              next_id, dets, matched, j + 1, ocr, vt)
       ELSE Spawn_NoIncrement(persons, next_id, dets, matched, j + 1, ocr, vt)

\* mutant: the test of line 210 is left out, matched detections spawn too
RECURSIVE Spawn_AllDetections(_, _, _, _, _, _, _)
Spawn_AllDetections(persons, next_id, dets, matched, j, ocr, vt) ==
  IF j > Len(dets) THEN [persons |-> persons, next_id |-> next_id]
  ELSE Spawn_AllDetections(
         Append(persons, TrackedPerson(next_id, dets[j].bbox, ocr, vt)),
         next_id + 1, dets, matched, j + 1, ocr, vt)

\* step 4 (lines 208-213)
RECURSIVE Spawn(_, _, _, _, _, _, _)
Spawn(persons, next_id, dets, matched, j, ocr, vt) ==
  IF j > Len(dets) THEN [persons |-> persons, next_id |-> next_id]
  ELSE IF ~matched[j]
       THEN Spawn(Append(persons, TrackedPerson(next_id, dets[j].bbox, ocr, vt)),
                  next_id + 1, dets, matched, j + 1, ocr, vt)
       ELSE Spawn(persons, next_id, dets, matched, j + 1, ocr, vt)

\* mutant: the persons to keep are collected in front of the list
RECURSIVE Expire_Reverses(_, _, _, _, _)
Expire_Reverses(persons, i, keep, out, attr) ==
  IF i > Len(persons) THEN [persons |-> keep, out |-> out, attr |-> attr]
  ELSE LET person == persons[i]
       IN IF ~is_too_old(person)
          THEN Expire_Reverses(persons, i + 1, <<person>> \o keep, out, attr)
          ELSE IF person.is_working
                  /\ Truthy(person.current_working_session_start_time)
               THEN LET session_end_time == person.last_ocr_time
                        duration == _calculate_time_difference_in_seconds(
                                      person.current_working_session_start_time,
                                      session_end_time)
                    IN Expire_Reverses(persons, i + 1, keep,
                              Append(out, Line(person.id,
                                     "Track lost and working session ended",
                                     session_end_time, duration)),
                              TRUE)
               ELSE Expire_Reverses(persons, i + 1, keep, out, attr)

\* step 5 (lines 215-232); a removed person's last field writes are lost with it
RECURSIVE Expire(_, _, _, _, _)
Expire(persons, i, keep, out, attr) ==
  IF i > Len(persons) THEN [persons |-> keep, out |-> out, attr |-> attr]
  ELSE LET person == persons[i]
       IN IF ~is_too_old(person)
          THEN Expire(persons, i + 1, Append(keep, person), out, attr)
          ELSE IF person.is_working
                  /\ Truthy(person.current_working_session_start_time)
               THEN LET session_end_time == person.last_ocr_time
                        duration == _calculate_time_difference_in_seconds(
                                      person.current_working_session_start_time,
                                      session_end_time)
                    IN Expire(persons, i + 1, keep,
                              Append(out, Line(person.id,
                                     "Track lost and working session ended",
                                     session_end_time, duration)),
                              TRUE)
               ELSE Expire(persons, i + 1, keep, out, attr)

\* step 1 (lines 171-172)
RECURSIVE MarkAllMissing(_, _)
MarkAllMissing(persons, i) ==
  IF i > Len(persons) THEN persons
  ELSE MarkAllMissing([persons EXCEPT ![i] = increment_missing(@)], i + 1)

\* [False] * n
RECURSIVE AllFalse(_)
AllFalse(n) == IF n = 0 THEN <<>> ELSE Append(AllFalse(n - 1), FALSE)

\* PersonTracker.update
update(persons, next_id, dets, ocr, frame_time_sec) ==
  LET step1 == MarkAllMissing(persons, 1)
      matched0 == AllFalse(Len(dets))
      step2 == Associate(step1, 1, dets, matched0, ocr, frame_time_sec, <<>>,
                         FALSE, {})
      step4 == Spawn(step2.persons, next_id, dets, step2.matched, 1, ocr,
                     frame_time_sec)
      step5 == Expire(step4.persons, 1, <<>>, step2.out, step2.attr)
  IN [persons |-> step5.persons,
      next_id |-> step4.next_id,
      out |-> step5.out,
      attr |-> step5.attr,
      hit |-> step2.hit]

\* ------------------------------------------------------------------------
\* utils/data_logger.py
\* ------------------------------------------------------------------------
Event(person_id, event_type, cctv_time_str, video_frame_time_sec, details) ==
  [person_id |-> person_id,
   event_type |-> event_type,
   cctv_time_str |-> cctv_time_str,
   video_frame_time_sec |-> video_frame_time_sec,
   details |-> details]

\* f"{hours:02}:{minutes:02}:{seconds:02}" of divmod(int(total), 3600) and
\* divmod(remainder, 60), kept as the three numbers
FormatHMS(total) ==
  LET hours == total \div 3600
      remainder == total % 3600
  IN <<hours, remainder \div 60, remainder % 60>>

\* the scan of the raw events of one person (lines 85-93)
RECURSIVE WorkingPeriods(_, _, _, _, _)
WorkingPeriods(evs, k, id, current_start, periods) ==
  IF k > Len(evs) THEN periods
  ELSE IF evs[k].person_id = id /\ evs[k].event_type = "WORKING_START"
       THEN WorkingPeriods(evs, k + 1, id, evs[k].cctv_time_str, periods)
  ELSE IF evs[k].person_id = id /\ evs[k].event_type = "WORKING_END"
          /\ current_start # NoneStr
       THEN WorkingPeriods(evs, k + 1, id, NoneStr,
                           Append(periods, <<current_start, evs[k].cctv_time_str>>))
  ELSE WorkingPeriods(evs, k + 1, id, current_start, periods)

ReportRow(person, evs) ==
  [person_id |-> person.id,
   in_time |-> IF Truthy(person.in_time) THEN person.in_time ELSE NA,
   out_time |-> IF Truthy(person.out_time) THEN person.out_time ELSE NA,
   total_working |-> FormatHMS(person.total_working_seconds),
   working_periods |->
     WorkingPeriods(evs, 1, person.id, NoneStr, <<>>) \o
     (IF person.is_working /\ Truthy(person.current_working_session_start_time)
      THEN <<<<person.current_working_session_start_time, "Ongoing (Video End)">>>>
      ELSE <<>>)]

RECURSIVE ReportRows(_, _, _, _)
ReportRows(persons, evs, i, data_for_df) ==
  IF i > Len(persons) THEN data_for_df
  ELSE ReportRows(persons, evs, i + 1, Append(data_for_df, ReportRow(persons[i], evs)))

export_to_csv(persons, evs) == ReportRows(persons, evs, 1, <<>>)

\* ------------------------------------------------------------------------
\* main.py: run_office_tracking
\* ------------------------------------------------------------------------
\* zone test on the float centroid ((x1+x2)/2, (y1+y2)/2), both sides doubled
InZone(bbox, zone) ==
  /\ 2 * zone[1] <= bbox[1] + bbox[3]
  /\ bbox[1] + bbox[3] <= 2 * zone[3]
  /\ 2 * zone[2] <= bbox[2] + bbox[4]
  /\ bbox[2] + bbox[4] <= 2 * zone[4]

\* lines 77-93: last known time, IN detection
InStep(person, ocr, vt) ==
  LET p0 == IF ocr # NA THEN [person EXCEPT !.last_ocr_time = ocr] ELSE person
  IN IF vt <= IN_TIME_WINDOW_END_SEC /\ p0.in_time = NoneStr /\ ocr # NA
        /\ InZone(p0.bbox, IN_ZONE)
     THEN [p |-> [p0 EXCEPT !.in_time = ocr, !.in_frame_time_sec = vt],
           ev |-> <<Event(p0.id, "IN", ocr, vt, "Person entered office.")>>,
           out |-> <<>>]
     ELSE [p |-> p0, ev |-> <<>>, out |-> <<>>]

\* mutant: the activity is evaluated from the end of the IN window on (>=)
ActivityStep_AtWindowEnd(r, ocr, vt) ==
  LET person == r.p
      new_activity == classify(person.bbox)
  IN IF vt >= IN_TIME_WINDOW_END_SEC /\ person.activity # new_activity
     THEN LET prev_activity == person.activity
              u == update_activity(person, new_activity, ocr)
          IN [p |-> u.p,
              ev |-> r.ev \o
                 <<Event(person.id, "ACTIVITY_CHANGE", ocr, vt, new_activity)>> \o
                 (IF new_activity = "working" /\ ocr # NA
                  THEN <<Event(person.id, "WORKING_START", ocr, vt,
                               "Person started working (sitting).")>>
                  ELSE IF prev_activity = "working" /\ new_activity = "standing"
                          /\ ocr # NA
                  THEN <<Event(person.id, "WORKING_END", ocr, vt,
                               "Person stopped working (stood up).")>>
                  ELSE <<>>),
              out |-> r.out \o u.out]
     ELSE r

\* mutant: WORKING_START is logged without looking at the reading
ActivityStep_StartWithoutReading(r, ocr, vt) ==
  LET person == r.p
      new_activity == classify(person.bbox)
  IN IF vt > IN_TIME_WINDOW_END_SEC /\ person.activity # new_activity
     THEN LET prev_activity == person.activity
              u == update_activity(person, new_activity, ocr)
          IN [p |-> u.p,
              ev |-> r.ev \o
                 <<Event(person.id, "ACTIVITY_CHANGE", ocr, vt, new_activity)>> \o
                 (IF new_activity = "working"
                  THEN <<Event(person.id, "WORKING_START", ocr, vt,
                               "Person started working (sitting).")>>
                  ELSE IF prev_activity = "working" /\ new_activity = "standing"
                          /\ ocr # NA
                  THEN <<Event(person.id, "WORKING_END", ocr, vt,
                               "Person stopped working (stood up).")>>
                  ELSE <<>>),
              out |-> r.out \o u.out]
     ELSE r

\* lines 97-117: activity classification
ActivityStep(r, ocr, vt) ==
  LET person == r.p
      new_activity == classify(person.bbox)
  IN IF vt > IN_TIME_WINDOW_END_SEC /\ person.activity # new_activity
     THEN LET prev_activity == person.activity
              u == update_activity(person, new_activity, ocr)
          IN [p |-> u.p,
              ev |-> r.ev \o
                 <<Event(person.id, "ACTIVITY_CHANGE", ocr, vt, new_activity)>> \o
                 (IF new_activity = "working" /\ ocr # NA
                  THEN <<Event(person.id, "WORKING_START", ocr, vt,
                               "Person started working (sitting).")>>
                  ELSE IF prev_activity = "working" /\ new_activity = "standing"
                          /\ ocr # NA
                  THEN <<Event(person.id, "WORKING_END", ocr, vt,
                               "Person stopped working (stood up).")>>
                  ELSE <<>>),
              out |-> r.out \o u.out]
     ELSE r

\* mutant: lines 137-142 are left out, the session stays open at the exit
OutStep_KeepsSession(r, ocr, vt) ==
  LET person == r.p
  IN IF vt >= OUT_TIME_WINDOW_START_SEC /\ person.in_time # NoneStr
        /\ person.out_time = NoneStr /\ ocr # NA
        /\ InZone(person.bbox, OUT_ZONE)
     THEN [p |-> [person EXCEPT !.out_time = ocr, !.out_frame_time_sec = vt],
           ev |-> r.ev \o
              <<Event(person.id, "OUT", ocr, vt, "Person exited office.")>>,
           out |-> r.out]
     ELSE r

\* mutant: the test person.out_time is None of line 129 is left out
OutStep_Rewrites(r, ocr, vt) ==
  LET person == r.p
  IN IF vt >= OUT_TIME_WINDOW_START_SEC /\ person.in_time # NoneStr
        /\ ocr # NA /\ InZone(person.bbox, OUT_ZONE)
     THEN [p |-> [person EXCEPT !.out_time = ocr, !.out_frame_time_sec = vt],
           ev |-> r.ev \o
              <<Event(person.id, "OUT", ocr, vt, "Person exited office.")>>,
           out |-> r.out]
     ELSE r

\* lines 128-142: OUT detection
OutStep(r, ocr, vt) ==
  LET person == r.p
  IN IF vt >= OUT_TIME_WINDOW_START_SEC /\ person.in_time # NoneStr
        /\ person.out_time = NoneStr /\ ocr # NA
        /\ InZone(person.bbox, OUT_ZONE)
     THEN LET p1 == [person EXCEPT !.out_time = ocr, !.out_frame_time_sec = vt]
              closing == p1.is_working
                         /\ Truthy(p1.current_working_session_start_time)
              duration == IF closing
                          THEN _calculate_time_difference_in_seconds(
                                 p1.current_working_session_start_time, ocr)
                          ELSE 0
          IN [p |-> IF closing
                    THEN [p1 EXCEPT !.total_working_seconds = @ + duration,
                                    !.current_working_session_start_time = NoneStr,
                                    !.is_working = FALSE]
                    ELSE p1,
              ev |-> r.ev \o
                 <<Event(person.id, "OUT", ocr, vt, "Person exited office.")>> \o
                 (IF closing
                  THEN <<Event(person.id, "WORKING_END", ocr, vt,
                               "Person stopped working (exited office).")>>
                  ELSE <<>>),
              out |-> r.out]
     ELSE r

\* the body of the loop over tracked_persons (lines 76-142) for one person
ProcessPerson(person, ocr, vt) ==
  OutStep(ActivityStep(InStep(person, ocr, vt), ocr, vt), ocr, vt)

RECURSIVE ProcessAll(_, _, _, _, _, _)
ProcessAll(persons, i, ocr, vt, ev, out) ==
  IF i > Len(persons) THEN [persons |-> persons, ev |-> ev, out |-> out]
  ELSE LET r == ProcessPerson(persons[i], ocr, vt)
       IN ProcessAll([persons EXCEPT ![i] = r.p], i + 1, ocr, vt,
                     ev \o r.ev, out \o r.out)

\* lines 165-169: stream-end finalisation; the session fields are not reset
RECURSIVE Finalize(_, _, _, _)
Finalize(persons, i, vt, ev) ==
  IF i > Len(persons) THEN [persons |-> persons, ev |-> ev]
  ELSE LET person == persons[i]
       IN IF person.is_working
             /\ Truthy(person.current_working_session_start_time)
             /\ person.last_ocr_time # NA
          THEN LET duration == _calculate_time_difference_in_seconds(
                                 person.current_working_session_start_time,
                                 person.last_ocr_time)
               IN Finalize([persons EXCEPT ![i].total_working_seconds = @ + duration],
                           i + 1, vt,
                           Append(ev, Event(person.id, "WORKING_END",
                                            person.last_ocr_time, vt,
                                            "Person stopped working (video ended).")))
          ELSE Finalize(persons, i + 1, vt, ev)

\* ------------------------------------------------------------------------
\* Specification
\* ------------------------------------------------------------------------
NoCall == [fn |-> "none"]

\* main.py lines 27-43: the collaborators are constructed, nothing is read
Constructed ==
  /\ pc = "read"
  /\ frame_idx = 0
  /\ det_frames = 0
  /\ detections = <<>>
  /\ ocr_time = NA
  /\ current_video_time_sec = 0
  /\ tracked_persons = <<>>
  /\ next_person_id = 1
  /\ tracker_attr_set = FALSE
  /\ events = <<>>
  /\ console = <<>>
  /\ rows = <<>>
  /\ frames = <<>>

Init == Constructed /\ call = NoCall

\* lines 47-73: a frame is read, the OCR and the detector run, the tracker is
\* updated (FRAME_SKIP is 1: no frame is skipped)
Frame(dets, ocr, vt) ==
  /\ pc = "read"
  /\ vt >= current_video_time_sec
  /\ LET u == update(tracked_persons, next_person_id, dets, ocr, vt)
     IN /\ tracked_persons' = u.persons
        /\ next_person_id' = u.next_id
        /\ console' = console \o u.out
        /\ tracker_attr_set' = (tracker_attr_set \/ u.attr)
        /\ frames' = Append(frames, [dets |-> dets, ocr |-> ocr, vt |-> vt,
                                     hit |-> u.hit, persons |-> u.persons])
  /\ frame_idx' = frame_idx + 1
  /\ det_frames' = det_frames + (IF dets = <<>> THEN 0 ELSE 1)
  /\ detections' = dets
  /\ ocr_time' = ocr
  /\ current_video_time_sec' = vt
  /\ pc' = "persons"
  /\ UNCHANGED <<events, rows, call>>

\* lines 76-142: every live person is evaluated against the frame
ProcessPersons ==
  /\ pc = "persons"
  /\ LET r == ProcessAll(tracked_persons, 1, ocr_time, current_video_time_sec,
                         <<>>, <<>>)
     IN /\ tracked_persons' = r.persons
        /\ events' = events \o r.ev
        /\ console' = console \o r.out
  /\ pc' = "read"
  /\ UNCHANGED <<frame_idx, det_frames, detections, ocr_time,
                 current_video_time_sec, next_person_id, tracker_attr_set, rows,
                 frames, call>>

\* lines 48-50 and 153-155, then 164-169: the loop is left (no frame could be
\* read, or the user quits after a frame) and open sessions are finalised.
\* When no frame was processed the name tracked_persons is unbound.
EndOfStream ==
  /\ pc = "read"
  /\ IF frame_idx = 0
     THEN /\ pc' = "NameError"
          /\ UNCHANGED <<tracked_persons, events>>
     ELSE /\ LET f == Finalize(tracked_persons, 1, current_video_time_sec, events)
             IN /\ tracked_persons' = f.persons
                /\ events' = f.ev
          /\ pc' = "export"
  /\ UNCHANGED <<frame_idx, det_frames, detections, ocr_time,
                 current_video_time_sec, next_person_id, tracker_attr_set,
                 console, rows, frames, call>>

\* line 171
Export ==
  /\ pc = "export"
  /\ rows' = export_to_csv(tracked_persons, events)
  /\ pc' = "done"
  /\ UNCHANGED <<frame_idx, det_frames, detections, ocr_time,
                 current_video_time_sec, tracked_persons, next_person_id,
                 tracker_attr_set, events, console, frames, call>>

\* detector results of the short streams
Detections ==
  {<<>>, <<Det(BoxInSit)>>, <<Det(BoxOutSit)>>, <<Det(BoxNearOutStand)>>}

ReadFrame ==
  /\ frame_idx < MaxFrames
  /\ \E dets \in Detections, ocr \in OcrReadings, vt \in VideoTimes :
        Frame(dets, ocr, vt)

Next == ReadFrame \/ ProcessPersons \/ EndOfStream \/ Export

Spec == Init /\ [][Next]_vars

\* Long streams, rich in geometry and poor in readings: at most
\* MaxLeadFrames frames carry detections; once a frame is empty the frames
\* stay empty (and repeat the reading and video time of the frame before)
\* until no track is live, so that tracks stay unmatched until they expire.
LongDetections ==
  {<<Det(BoxInStand)>>, <<Det(BoxInSit)>>, <<Det(BoxAtCap)>>,
   <<Det(BoxOutSit)>>, <<Det(BoxInStand), Det(BoxAtCap)>>,
   <<Det(BoxAtCap), Det(BoxInSit)>>}

\* the overlay clock of the long streams: video time and the reading shown
LongClock ==
  {<<16, "23:58:00">>, <<17, "23:58:00">>, <<42, "00:02">>, <<43, "00:02">>}

LongFrames == MaxLeadFrames + MAX_MISSING_FRAMES + 2

ReadLeadFrame ==
  /\ frame_idx < LongFrames
  /\ det_frames < MaxLeadFrames
  /\ detections # <<>> \/ tracked_persons = <<>>
  /\ \E dets \in LongDetections, c \in LongClock : Frame(dets, c[2], c[1])

ReadEmptyFrame ==
  /\ frame_idx < LongFrames
  /\ tracked_persons # <<>>
  /\ Frame(<<>>, ocr_time, current_video_time_sec)

NextLong == ReadLeadFrame \/ ReadEmptyFrame \/ ProcessPersons \/ EndOfStream \/ Export

SpecLong == Init /\ [][NextLong]_vars

\* Streams in which one person is detected in the first frame and never
\* again, while the overlay clock runs on: the track stays unmatched until it
\* is removed, and the IN window can end while it is missing
ExpireDetections == {<<Det(BoxInSit)>>, <<Det(BoxInStand)>>}

ExpireClock == {<<16, "23:58:00">>, <<42, "23:58:00">>, <<43, "00:02">>}

ReadFirstFrame ==
  /\ frame_idx = 0
  /\ \E dets \in ExpireDetections, c \in ExpireClock : Frame(dets, c[2], c[1])

ReadUnmatchedFrame ==
  /\ frame_idx > 0
  /\ frame_idx < LongFrames
  /\ tracked_persons # <<>>
  /\ \E c \in ExpireClock : Frame(<<>>, c[2], c[1])

NextExpire ==
  ReadFirstFrame \/ ReadUnmatchedFrame \/ ProcessPersons \/ EndOfStream \/ Export

SpecExpire == Init /\ [][NextExpire]_vars

\* Streams with up to two detections per frame, all on one line: detections
\* at the same distance from a track, and detections two tracks compete for
AssocBoxes == {BoxLeft, BoxTie, BoxInStand, BoxInSit, BoxAtCap}

AssocDetections ==
  {<<>>} \cup {<<Det(a)>> : a \in AssocBoxes}
         \cup {<<Det(a), Det(b)>> : a \in AssocBoxes, b \in AssocBoxes}

AssocClock == {<<17, "23:58:00">>, <<43, "N/A">>}

ReadAssocFrame ==
  /\ frame_idx < MaxAssocFrames
  /\ \E dets \in AssocDetections, c \in AssocClock : Frame(dets, c[2], c[1])

NextAssoc == ReadAssocFrame \/ ProcessPersons \/ EndOfStream \/ Export

SpecAssoc == Init /\ [][NextAssoc]_vars

\* Streams whose overlay is misread: the OCR fallback (ocr_extractor.py line
\* 126) returns the cleaned text as it is, digits and colons included, so a
\* reading can have an hour no clock shows
MisreadDetections == {<<>>, <<Det(BoxInSit)>>, <<Det(BoxInStand)>>}

MisreadReadings == {"29:58:00", "00:02", "N/A"}

ReadMisreadFrame ==
  /\ frame_idx < MaxFrames
  /\ \E dets \in MisreadDetections, ocr \in MisreadReadings :
        Frame(dets, ocr, OUT_TIME_WINDOW_START_SEC)

NextMisread == ReadMisreadFrame \/ ProcessPersons \/ EndOfStream \/ Export

SpecMisread == Init /\ [][NextMisread]_vars

\* ------------------------------------------------------------------------
\* Functions called on their own
\* ------------------------------------------------------------------------
\* update_activity called twice in a row with the same activity, on a person
\* in any combination of session fields
ActivityPersons ==
  {[TrackedPerson(1, BoxInSit, "23:58:00", 43) EXCEPT
      !.activity = a, !.is_working = w,
      !.current_working_session_start_time = s, !.total_working_seconds = n] :
     a \in {"standing", "working"}, w \in BOOLEAN,
     s \in {NoneStr, NA, "23:58:00"}, n \in {0, 120}}

ActivityCalls ==
  {[fn |-> "update_activity", person |-> p, new_activity |-> a,
    ocr_time |-> t, ocr_time_2 |-> t2, calls |-> 0, out |-> <<>>] :
     p \in ActivityPersons, a \in {"standing", "working"},
     t \in OcrReadings, t2 \in OcrReadings}

InitActivity == Constructed /\ call \in ActivityCalls

FirstCall ==
  /\ call.fn = "update_activity"
  /\ call.calls = 0
  /\ LET u == update_activity(call.person, call.new_activity, call.ocr_time)
     IN call' = [call EXCEPT !.person = u.p, !.out = u.out, !.calls = 1]
  /\ UNCHANGED <<pc, frame_idx, det_frames, detections, ocr_time,
                 current_video_time_sec, tracked_persons, next_person_id,
                 tracker_attr_set, events, console, rows, frames>>

SecondCall ==
  /\ call.fn = "update_activity"
  /\ call.calls = 1
  /\ LET u == update_activity(call.person, call.new_activity, call.ocr_time_2)
     IN call' = [call EXCEPT !.person = u.p, !.out = @ \o u.out, !.calls = 2]
  /\ UNCHANGED <<pc, frame_idx, det_frames, detections, ocr_time,
                 current_video_time_sec, tracked_persons, next_person_id,
                 tracker_attr_set, events, console, rows, frames>>

NextActivity == FirstCall \/ SecondCall

SpecActivity == InitActivity /\ [][NextActivity]_vars

\* _calculate_time_difference_in_seconds called on two well-formed times of
\* day, written as the overlay writes them
Hours == {0, 9, 23}

Minutes == {0, 2, 58, 59}

Seconds == {0, 59}

TimeForms == {"HH:MM:SS", "H:MM:SS", "HH:MM"}

\* a time of day and the way it is written; HH:MM has no seconds
TimesOfDay ==
  {[h |-> h, m |-> m, s |-> sec, form |-> f] :
     h \in Hours, m \in Minutes, sec \in Seconds, f \in TimeForms}
  \ {x \in [h : Hours, m : Minutes, s : Seconds, form : TimeForms] :
       x.form = "HH:MM" /\ x.s # 0}

TwoDigits(n) == <<DigitChars[(n \div 10) + 1], DigitChars[(n % 10) + 1]>>

\* the characters of a time of day
TimeChars(x) ==
  (IF x.form = "H:MM:SS" /\ x.h < 10 THEN <<DigitChars[x.h + 1]>>
   ELSE TwoDigits(x.h))
  \o <<":">> \o TwoDigits(x.m)
  \o (IF x.form = "HH:MM" THEN <<>> ELSE <<":">> \o TwoDigits(x.s))

ElapsedCalls ==
  {[fn |-> "_calculate_time_difference_in_seconds", start |-> x, end |-> y,
    start_time_str |-> TimeChars(x), end_time_str |-> TimeChars(y),
    returned |-> FALSE, result |-> 0] :
     x \in TimesOfDay, y \in TimesOfDay}

InitElapsed == Constructed /\ call \in ElapsedCalls

CallElapsed ==
  /\ call.fn = "_calculate_time_difference_in_seconds"
  /\ ~call.returned
  /\ call' = [call EXCEPT
                !.result = ElapsedChars(call.start_time_str, call.end_time_str),
                !.returned = TRUE]
  /\ UNCHANGED <<pc, frame_idx, det_frames, detections, ocr_time,
                 current_video_time_sec, tracked_persons, next_person_id,
                 tracker_attr_set, events, console, rows, frames>>

SpecElapsed == InitElapsed /\ [][CallElapsed]_vars

\* parse_time_to_seconds called on strings of one to four segments, integer
\* or not, joined by colons; the elapsed time to and from 00:02 is taken too
MaxSegments == 4

SegmentTexts ==
  {[chars |-> <<"0", "2">>, numeric |-> TRUE, val |-> 2],
   [chars |-> <<"2", "3">>, numeric |-> TRUE, val |-> 23],
   [chars |-> <<"5", "8">>, numeric |-> TRUE, val |-> 58],
   [chars |-> <<"7">>, numeric |-> TRUE, val |-> 7],
   [chars |-> <<>>, numeric |-> FALSE, val |-> 0],
   [chars |-> <<"N", "/", "A">>, numeric |-> FALSE, val |-> 0],
   [chars |-> <<"0", "8", " ", "P", "M">>, numeric |-> FALSE, val |-> 0]}

SegmentLists ==
  UNION {[1..n -> SegmentTexts] : n \in 1..MaxSegments}

\* ':'.join(segments)
RECURSIVE JoinColon(_, _)
JoinColon(segs, i) ==
  IF i > Len(segs) THEN <<>>
  ELSE (IF i = 1 THEN <<>> ELSE <<":">>) \o segs[i].chars \o JoinColon(segs, i + 1)

ReferenceTime == <<"0", "0", ":", "0", "2">>

ParseCalls ==
  {[fn |-> "parse_time_to_seconds", segments |-> segs,
    time_str |-> JoinColon(segs, 1), returned |-> FALSE, seconds |-> 0,
    until_reference |-> 0, since_reference |-> 0] : segs \in SegmentLists}

InitParse == Constructed /\ call \in ParseCalls

CallParse ==
  /\ call.fn = "parse_time_to_seconds"
  /\ ~call.returned
  /\ call' = [call EXCEPT
                !.seconds = parse_time_to_seconds(call.time_str),
                !.until_reference = ElapsedChars(call.time_str, ReferenceTime),
                !.since_reference = ElapsedChars(ReferenceTime, call.time_str),
                !.returned = TRUE]
  /\ UNCHANGED <<pc, frame_idx, det_frames, detections, ocr_time,
                 current_video_time_sec, tracked_persons, next_person_id,
                 tracker_attr_set, events, console, rows, frames>>

SpecParse == InitParse /\ [][CallParse]_vars

\* classify called on boxes of all kinds: degenerate, below, at and above
\* the threshold ratio
BoxOrigins == {<<0, 0>>, <<10, 5>>}

BoxWidths == {-10, 0, 5, 10, 100}

BoxHeights == {-7, 0, 6, 7, 8, 13, 14, 15, 139, 140, 141}

ClassifyCalls ==
  {[fn |-> "classify",
    bbox |-> <<o[1], o[2], o[1] + w, o[2] + h>>,
    returned |-> FALSE, result |-> ""] :
     o \in BoxOrigins, w \in BoxWidths, h \in BoxHeights}

InitClassify == Constructed /\ call \in ClassifyCalls

CallClassify ==
  /\ call.fn = "classify"
  /\ ~call.returned
  /\ call' = [call EXCEPT !.result = classify(call.bbox), !.returned = TRUE]
  /\ UNCHANGED <<pc, frame_idx, det_frames, detections, ocr_time,
                 current_video_time_sec, tracked_persons, next_person_id,
                 tracker_attr_set, events, console, rows, frames>>

SpecClassify == InitClassify /\ [][CallClassify]_vars

\* ------------------------------------------------------------------------
\* Reading the state and the history
\* ------------------------------------------------------------------------
Ids(persons) == {persons[i].id : i \in DOMAIN persons}

LiveIds == Ids(tracked_persons)

\* ids live before the update of frame k
IdsBefore(k) == IF k = 1 THEN {} ELSE Ids(frames[k - 1].persons)

HasOpenSession(p) ==
  p.is_working /\ p.current_working_session_start_time # NoneStr

\* sessions opened for a person: "Activity changed ... to 'working'" lines
Opens(id) ==
  Cardinality({k \in DOMAIN console :
     /\ console[k].person_id = id
     /\ console[k].line = "Activity changed"
     /\ console[k].arg = "working"})

\* additions to total_working_seconds made for a person: the three "ended"
\* lines of tracker.py and the two WORKING_END events main.py logs with one
EndedLines ==
  {"Ended working session", "Ended working session due to disappearance",
   "Track lost and working session ended"}

Adds(id) ==
  Cardinality({k \in DOMAIN console :
     console[k].person_id = id /\ console[k].line \in EndedLines})
  + Cardinality({k \in DOMAIN events :
       /\ events[k].person_id = id
       /\ events[k].event_type = "WORKING_END"
       /\ events[k].details \in {"Person stopped working (exited office).",
                                 "Person stopped working (video ended)."}})

EventsOf(id, type) ==
  {k \in DOMAIN events : events[k].person_id = id /\ events[k].event_type = type}

\* the zone test of the specification, on halves: zx1 <= cx <= zx2 and
\* zy1 <= cy <= zy2 for the centroid ((x1+x2)/2, (y1+y2)/2)
CentroidInside(bbox, zx1, zy1, zx2, zy2) ==
  /\ zx1 + zx1 <= bbox[1] + bbox[3] /\ bbox[1] + bbox[3] <= zx2 + zx2
  /\ zy1 + zy1 <= bbox[2] + bbox[4] /\ bbox[2] + bbox[4] <= zy2 + zy2

\* ------------------------------------------------------------------------
\* Claims
\* ------------------------------------------------------------------------

\* C1: for every live track, at every point, is_working holds exactly when
\* current_working_session_start_time is set (not None).
C1_WorkingIffSessionStart ==
  \A i \in DOMAIN tracked_persons :
     tracked_persons[i].is_working
       <=> (tracked_persons[i].current_working_session_start_time # NoneStr)

\* C2: no step decreases the total_working_seconds of a track, whatever the
\* readings (well-formed, malformed, "N/A"), and every duration that is
\* added is non-negative.
C2_TotalNeverDecreases ==
  [][/\ \A i \in DOMAIN tracked_persons : \A j \in DOMAIN tracked_persons' :
           tracked_persons'[j].id = tracked_persons[i].id
           => tracked_persons'[j].total_working_seconds
                >= tracked_persons[i].total_working_seconds
     /\ \A k \in DOMAIN console' : console'[k].duration >= 0]_vars

C4_IdentitiesNeverReused ==
  /\ \A i, j \in DOMAIN tracked_persons :
        i # j => tracked_persons[i].id # tracked_persons[j].id
  /\ \A i \in DOMAIN tracked_persons : tracked_persons[i].id < next_person_id
  /\ \A k \in {Len(frames)} \ {0} : \A i \in DOMAIN frames[k].persons :
        LET p == frames[k].persons[i]
        IN (p.id \notin IdsBefore(k) \/ \E j \in 1..(i - 1) : frames[k].persons[j].id = p.id)
           => \A m \in 1..(k - 1) : \A id \in Ids(frames[m].persons) : id < p.id

\* identity 1 expired, and a later frame with two detections spawned two
\* tracks at once
C4_Witness ==
  /\ 1 \notin LiveIds
  /\ Cardinality(LiveIds) = 2
  /\ \A i \in DOMAIN tracked_persons : tracked_persons[i].missing_frames = 0
  /\ \E k \in DOMAIN frames : 1 \in Ids(frames[k].persons)

\* C5: with one live track and one detection, the detection is associated
\* with the track (no new identity, counter reset) exactly when the distance
\* of the two centroids is below 70; at 70 or more the track stays unmatched
\* and the detection gets a new identity.
C5_AssociatesIffCloserThanCap ==
  [][(pc = "read" /\ pc' = "persons"
        /\ Len(tracked_persons) = 1 /\ Len(detections') = 1)
     => LET p == tracked_persons[1]
            d == detections'[1].bbox
        IN IF Dist2(_get_centroid(p.bbox), _get_centroid(d)) < 70 * 70
           THEN /\ next_person_id' = next_person_id
                /\ Len(tracked_persons') = 1
                /\ tracked_persons'[1].id = p.id
                /\ tracked_persons'[1].bbox = d
                /\ tracked_persons'[1].missing_frames = 0
           ELSE /\ next_person_id' = next_person_id + 1
                /\ \E j \in DOMAIN tracked_persons' :
                      /\ tracked_persons'[j].id = next_person_id
                      /\ tracked_persons'[j].bbox = d
                      /\ tracked_persons'[j].missing_frames = 0
                /\ \A j \in DOMAIN tracked_persons' :
                      tracked_persons'[j].id = p.id
                      => /\ tracked_persons'[j].missing_frames = p.missing_frames + 1
                         /\ tracked_persons'[j].bbox = p.bbox]_vars

\* a single detection exactly 70 px from the only live track spawned a
\* second identity
C5_Witness ==
  /\ pc = "persons"
  /\ \E k \in DOMAIN frames :
        /\ k > 1
        /\ Len(frames[k - 1].persons) = 1
        /\ Len(frames[k].dets) = 1
        /\ Dist2(_get_centroid(frames[k - 1].persons[1].bbox),
                 _get_centroid(frames[k].dets[1].bbox)) = 70 * 70
        /\ Len(frames[k].persons) = 2
        /\ frames[k].persons[1].missing_frames = 1

\* number of consecutive updates, up to the one of frame k, in which the
\* person was live and not matched
RECURSIVE UnmatchedRun(_, _)
UnmatchedRun(id, k) ==
  IF k = 0 THEN 0
  ELSE IF id \notin IdsBefore(k) THEN 0
  ELSE IF id \in frames[k].hit THEN 0
  ELSE 1 + UnmatchedRun(id, k - 1)

\* C6: after every update a live track's missing counter is the number of
\* most recent consecutive updates that did not match it and is at most 15;
\* a track leaves the live list in exactly the update in which that number
\* first exceeds 15, and an identity that left never comes back. (The
\* updates are looked at one by one, each when its frame is the newest.)
C6_MissingCounterAndExpiry ==
  /\ \A i \in DOMAIN tracked_persons :
        /\ tracked_persons[i].missing_frames
             = UnmatchedRun(tracked_persons[i].id, Len(frames))
        /\ tracked_persons[i].missing_frames <= 15
  /\ \A k \in {Len(frames)} \ {0} : \A id \in IdsBefore(k) :
        (id \notin Ids(frames[k].persons)) <=> (UnmatchedRun(id, k) = 16)
  /\ \A k \in {Len(frames)} \ {0} : \A id \in Ids(frames[k].persons) :
        id \in IdsBefore(k) \/ \A m \in 1..(k - 1) : id \notin Ids(frames[m].persons)

\* identity 1 expired after 16 unmatched updates, and a detection at the place
\* it was spawned has since been given a fresh identity
C6_Witness ==
  /\ \E k \in DOMAIN frames :
        /\ 1 \in IdsBefore(k)
        /\ 1 \notin Ids(frames[k].persons)
        /\ UnmatchedRun(1, k) = 16
  /\ tracked_persons # <<>>
  /\ tracked_persons[1].id # 1
  /\ tracked_persons[1].bbox = frames[1].persons[1].bbox

\* frames in which a person satisfied the IN conditions: video time within
\* the IN window, reading available, centroid inside the IN zone
InConditionFrames(id) ==
  {k \in DOMAIN frames :
     /\ frames[k].vt <= 16
     /\ frames[k].ocr # NA
     /\ \E i \in DOMAIN frames[k].persons :
           /\ frames[k].persons[i].id = id
           /\ CentroidInside(frames[k].persons[i].bbox, 0, 0, 300, 1224)}

FirstOf(S) == CHOOSE k \in S : \A m \in S : k <= m

\* C7: once a frame has been evaluated, a track's in_time is the reading of
\* the first frame in which it satisfied the IN conditions, and None when
\* there was no such frame.
C7_InTimeOnlyFromInConditions ==
  pc # "persons"
  => \A i \in DOMAIN tracked_persons :
        LET p == tracked_persons[i]
            S == InConditionFrames(p.id)
        IN p.in_time = IF S = {} THEN NoneStr ELSE frames[FirstOf(S)].ocr

\* C8: a person has at most one IN event, and a track whose in_time is set
\* has exactly one, carrying the frame's reading that in_time holds.
C8_OneInEventPerInTime ==
  pc # "persons"
  => \A i \in DOMAIN tracked_persons :
        LET p == tracked_persons[i]
        IN /\ Cardinality(EventsOf(p.id, "IN")) <= 1
           /\ p.in_time # NoneStr
                => /\ Cardinality(EventsOf(p.id, "IN")) = 1
                   /\ \A k \in EventsOf(p.id, "IN") :
                         events[k].cctv_time_str = p.in_time

\* C9: every OUT event in the log is preceded by an IN event of the same
\* person, and a track that never satisfied the IN conditions has no out_time.
C9_OutPrecededByIn ==
  /\ \A k \in DOMAIN events :
        events[k].event_type = "OUT"
        => \E j \in 1..(k - 1) :
              /\ events[j].event_type = "IN"
              /\ events[j].person_id = events[k].person_id
  /\ \A i \in DOMAIN tracked_persons :
        InConditionFrames(tracked_persons[i].id) = {}
        => tracked_persons[i].out_time = NoneStr

\* C10: out_time is write-once and the OUT event fires at most once: a step
\* sets out_time only while evaluating a frame with video time >= 43, an
\* available reading and the centroid inside the OUT zone (bounds included);
\* it then keeps out_time and out_frame_time_sec, and the log has one OUT
\* event for a track with out_time and none for a track without.
C10_OutWriteOnce ==
  [][/\ \A i \in DOMAIN tracked_persons : \A j \in DOMAIN tracked_persons' :
           LET p == tracked_persons[i]
               q == tracked_persons'[j]
           IN q.id = p.id
              => /\ p.out_time # NoneStr
                      => /\ q.out_time = p.out_time
                         /\ q.out_frame_time_sec = p.out_frame_time_sec
                 /\ (p.out_time = NoneStr /\ q.out_time # NoneStr)
                      => /\ pc = "persons"
                         /\ current_video_time_sec >= 43
                         /\ ocr_time # NA
                         /\ q.out_time = ocr_time
                         /\ q.out_frame_time_sec = current_video_time_sec
                         /\ CentroidInside(q.bbox, 780, 0, 1080, 1224)
     /\ \A j \in DOMAIN tracked_persons' :
           Cardinality({k \in DOMAIN events' :
                          /\ events'[k].person_id = tracked_persons'[j].id
                          /\ events'[k].event_type = "OUT"})
             = IF tracked_persons'[j].out_time # NoneStr THEN 1 ELSE 0]_vars

\* a track got its out_time with the centroid on the edge of the OUT zone
\* (cx = 780) and was evaluated again in the OUT zone, after the OUT window
\* start, under another available reading
C10_Witness ==
  /\ pc = "read"
  /\ ocr_time # NA
  /\ current_video_time_sec >= 43
  /\ \E i \in DOMAIN tracked_persons :
        /\ tracked_persons[i].out_time \notin {NoneStr, ocr_time}
        /\ tracked_persons[i].missing_frames = 0
        /\ tracked_persons[i].bbox = BoxOutSit
        /\ \E k \in DOMAIN events :
              /\ events[k].event_type = "OUT"
              /\ events[k].person_id = tracked_persons[i].id

\* events a step appended for one person, in order
RECURSIVE EventsAddedFor(_, _, _, _)
EventsAddedFor(evs, k, id, acc) ==
  IF k > Len(evs) THEN acc
  ELSE EventsAddedFor(evs, k + 1, id,
                      IF evs[k].person_id = id THEN Append(acc, evs[k]) ELSE acc)

\* C11: when the OUT event fires for a track with an open session started
\* at s, the same frame closes it with the frame's reading t: the total
\* grows by elapsed_seconds(s, t), is_working becomes false, the start is
\* cleared and one WORKING_END follows the OUT event; with no open session
\* the OUT event leaves the session fields alone and no WORKING_END follows.
\* (The state the OUT handler starts from is the one the earlier handlers of
\* the frame left.)
C11_OutClosesOpenSession ==
  [][pc = "persons"
     => \A i \in DOMAIN tracked_persons :
          LET p == tracked_persons[i]
              q == tracked_persons'[i]
              t == ocr_time
              mid == ActivityStep(InStep(p, t, current_video_time_sec), t,
                                  current_video_time_sec).p
              mine == EventsAddedFor(events', Len(events) + 1, p.id, <<>>)
              n == Len(mine)
          IN (p.out_time = NoneStr /\ q.out_time # NoneStr)
             => IF mid.is_working
                   /\ mid.current_working_session_start_time # NoneStr
                THEN /\ q.total_working_seconds
                          = mid.total_working_seconds
                            + _calculate_time_difference_in_seconds(
                                mid.current_working_session_start_time, t)
                     /\ ~q.is_working
                     /\ q.current_working_session_start_time = NoneStr
                     /\ n >= 2
                     /\ mine[n - 1].event_type = "OUT"
                     /\ mine[n].event_type = "WORKING_END"
                     /\ mine[n].cctv_time_str = t
                ELSE /\ q.total_working_seconds = mid.total_working_seconds
                     /\ q.is_working = mid.is_working
                     /\ q.current_working_session_start_time
                          = mid.current_working_session_start_time
                     /\ q.activity = mid.activity
                     /\ n >= 1
                     /\ mine[n].event_type = "OUT"]_vars

\* an exit closed a session of positive length: WORKING_END right after OUT
C11_Witness ==
  /\ \E k \in DOMAIN events :
        /\ k > 1
        /\ events[k].event_type = "WORKING_END"
        /\ events[k].details = "Person stopped working (exited office)."
        /\ events[k - 1].event_type = "OUT"
        /\ events[k - 1].person_id = events[k].person_id
        /\ \E i \in DOMAIN tracked_persons :
              /\ tracked_persons[i].id = events[k].person_id
              /\ tracked_persons[i].total_working_seconds > 0
              /\ ~tracked_persons[i].is_working
              /\ tracked_persons[i].current_working_session_start_time = NoneStr

\* C12: the unavailable sentinel never takes part in a session: no live
\* track has "N/A" as its session start, and no session was ended (its
\* duration computed) with "N/A" as the end time.
C12_NoSessionOnUnavailableReading ==
  /\ \A i \in DOMAIN tracked_persons :
        tracked_persons[i].current_working_session_start_time # NA
  /\ \A k \in DOMAIN console :
        console[k].line \in EndedLines => console[k].arg # NA

\* the person was spawned by frame k or matched by its update
Seen(id, k) ==
  id \in frames[k].hit \/ (id \in Ids(frames[k].persons) /\ id \notin IdsBefore(k))

\* C13: once a track has been seen on a frame with an available reading,
\* its last_ocr_time is never "N/A" again.
C13_LastKnownTimeStaysAvailable ==
  \A i \in DOMAIN tracked_persons :
     (\E k \in DOMAIN frames :
         Seen(tracked_persons[i].id, k) /\ frames[k].ocr # NA)
     => tracked_persons[i].last_ocr_time # NA

\* C14: when a track is removed by an update call at whose start its session
\* was still open, the session is closed with the track's own last known
\* time, never with the reading given to the call: the duration printed for
\* it is elapsed_seconds(session start, last known time).
C14_ExpiryClosesWithLastKnownTime ==
  [][(pc = "read" /\ pc' = "persons")
     => \A i \in DOMAIN tracked_persons :
          LET p == tracked_persons[i]
          IN (/\ p.id \notin Ids(tracked_persons')
              /\ p.is_working
              /\ p.current_working_session_start_time # NoneStr)
             => \E k \in (Len(console) + 1)..Len(console') :
                   /\ console'[k].person_id = p.id
                   /\ console'[k].line \in EndedLines
                   /\ console'[k].arg = p.last_ocr_time
                   /\ console'[k].duration
                        = _calculate_time_difference_in_seconds(
                            p.current_working_session_start_time,
                            p.last_ocr_time)]_vars

\* C15: an update call that does not match a live track with an open session
\* started at s closes it and adds elapsed_seconds(s, e) to the total, e
\* being the call's reading when available and the track's last known time
\* otherwise; for an unmatched track without open session the call changes
\* neither the session fields nor the total. (A session is open when
\* is_working holds and the start is set.)
C15_UnmatchedClosesSession ==
  [][(pc = "read" /\ pc' = "persons")
     => \A i \in DOMAIN tracked_persons : \A j \in DOMAIN tracked_persons' :
          LET p == tracked_persons[i]
              q == tracked_persons'[j]
              e == IF ocr_time' # NA THEN ocr_time' ELSE p.last_ocr_time
          IN (q.id = p.id /\ p.id \notin frames'[Len(frames')].hit)
             => IF p.is_working /\ p.current_working_session_start_time # NoneStr
                THEN /\ q.total_working_seconds
                          = p.total_working_seconds
                            + _calculate_time_difference_in_seconds(
                                p.current_working_session_start_time, e)
                     /\ ~(q.is_working
                           /\ q.current_working_session_start_time # NoneStr)
                ELSE /\ q.total_working_seconds = p.total_working_seconds
                     /\ q.is_working = p.is_working
                     /\ q.current_working_session_start_time
                          = p.current_working_session_start_time
                     /\ q.activity = p.activity]_vars

\* a session started at 23:58:00 was closed by an unmatched update on a
\* frame without reading, with the last known time 00:02: 240 seconds
C15_Witness ==
  /\ pc = "persons"
  /\ ocr_time = NA
  /\ detections = <<>>
  /\ \E i \in DOMAIN tracked_persons :
        /\ tracked_persons[i].missing_frames = 1
        /\ tracked_persons[i].last_ocr_time = "00:02"
        /\ tracked_persons[i].total_working_seconds = 240
        /\ ~tracked_persons[i].is_working
  /\ console[Len(console)].line = "Ended working session due to disappearance"
  /\ console[Len(console)].arg = "00:02"

\* C16: activity is not evaluated during the IN window: the evaluation of a
\* frame with video time <= 16 changes no track's activity, is_working,
\* session start or total and logs no ACTIVITY_CHANGE, WORKING_START or
\* WORKING_END; so as long as no frame had a video time above 16 every track
\* is standing, not working, without session start and with total 0.
C16_NoActivityInsideInWindow ==
  [][/\ (pc = "persons" /\ current_video_time_sec <= 16)
        => /\ \A i \in DOMAIN tracked_persons :
                LET p == tracked_persons[i]
                    q == tracked_persons'[i]
                IN /\ q.activity = p.activity
                   /\ q.is_working = p.is_working
                   /\ q.current_working_session_start_time
                        = p.current_working_session_start_time
                   /\ q.total_working_seconds = p.total_working_seconds
           /\ \A k \in (Len(events) + 1)..Len(events') :
                events'[k].event_type
                  \notin {"ACTIVITY_CHANGE", "WORKING_START", "WORKING_END"}
     /\ current_video_time_sec' <= 16
        => \A j \in DOMAIN tracked_persons' :
              LET q == tracked_persons'[j]
              IN /\ q.activity = "standing"
                 /\ ~q.is_working
                 /\ q.current_working_session_start_time = NoneStr
                 /\ q.total_working_seconds = 0]_vars

\* a track in a sitting box has been evaluated twice at video time 16, under
\* an available reading, and is still standing
C16_Witness ==
  /\ pc = "read"
  /\ frame_idx = 2
  /\ current_video_time_sec = 16
  /\ ocr_time # NA
  /\ \E i \in DOMAIN tracked_persons :
        /\ tracked_persons[i].bbox = BoxInSit
        /\ classify(tracked_persons[i].bbox) = "working"
        /\ tracked_persons[i].missing_frames = 0
        /\ tracked_persons[i].id = 1
        /\ tracked_persons[i].activity = "standing"

\* C17: update_activity is idempotent: a second call with the same activity
\* leaves activity, is_working, session start and total as the first call
\* left them, whatever the person's state and the two times.
C17_UpdateActivityIdempotent ==
  [][(call.fn = "update_activity" /\ call.calls = 1)
     => /\ call'.person.activity = call.person.activity
        /\ call'.person.is_working = call.person.is_working
        /\ call'.person.current_working_session_start_time
             = call.person.current_working_session_start_time
        /\ call'.person.total_working_seconds
             = call.person.total_working_seconds]_vars

\* the first call closed a session (120 + 240 seconds) on a change to
\* standing, the second came with another time
C17_Witness ==
  /\ call.fn = "update_activity"
  /\ call.calls = 2
  /\ call.new_activity = "standing"
  /\ call.ocr_time = "00:02"
  /\ call.ocr_time_2 = "02:41:08 PM"
  /\ call.person.total_working_seconds = 360
  /\ Len(call.out) = 2

\* seconds since midnight of a time of day
SecondsSinceMidnight(x) == x.h * 3600 + x.m * 60 + x.s

\* C18: for well-formed times of day the elapsed time is (end - start)
\* modulo 86400: end - start when end >= start, end + 86400 - start
\* otherwise, always within 0..86399, 0 for the same time, 240 from
\* 23:58:00 to 00:02:00.
C18_ElapsedModuloDay ==
  (call.fn = "_calculate_time_difference_in_seconds" /\ call.returned)
  => LET start_seconds == SecondsSinceMidnight(call.start)
         end_seconds == SecondsSinceMidnight(call.end)
     IN /\ call.result = IF end_seconds >= start_seconds
                          THEN end_seconds - start_seconds
                          ELSE end_seconds + 86400 - start_seconds
        /\ call.result = (end_seconds - start_seconds + 86400) % 86400
        /\ call.result \in 0..86399
        /\ start_seconds = end_seconds => call.result = 0
        /\ (start_seconds = 23 * 3600 + 58 * 60 /\ end_seconds = 2 * 60)
              => call.result = 240

\* 23:58:00 to 00:02:00 gave 240
C18_Witness ==
  /\ call.fn = "_calculate_time_difference_in_seconds"
  /\ call.returned
  /\ call.start_time_str = <<"2", "3", ":", "5", "8", ":", "0", "0">>
  /\ call.end_time_str = <<"0", "0", ":", "0", "2", ":", "0", "0">>
  /\ call.result = 240

\* C19: parsing never fails: three integer segments give h*3600+m*60+s, two
\* give h*3600+m*60, and a string with a segment that is not an integer or
\* with a number of segments other than 2 or 3 gives 0 as a whole; the
\* elapsed time is then computed with that value.
C19_ParseBestEffort ==
  (call.fn = "parse_time_to_seconds" /\ call.returned)
  => LET segs == call.segments
         expected ==
           IF \E i \in DOMAIN segs : ~segs[i].numeric THEN 0
           ELSE IF Len(segs) = 3
                THEN segs[1].val * 3600 + segs[2].val * 60 + segs[3].val
           ELSE IF Len(segs) = 2
                THEN segs[1].val * 3600 + segs[2].val * 60
           ELSE 0
     IN /\ call.seconds = expected
        /\ call.until_reference
             = IF 120 < expected THEN 120 + 86400 - expected ELSE 120 - expected
        /\ call.since_reference
             = IF expected < 120 THEN expected + 86400 - 120 ELSE expected - 120

\* "23:58:08 PM" parsed to 0 as a whole, and 120 seconds were counted from it
\* to 00:02
C19_Witness ==
  /\ call.fn = "parse_time_to_seconds"
  /\ call.returned
  /\ call.time_str = <<"2", "3", ":", "5", "8", ":", "0", "8", " ", "P", "M">>
  /\ call.seconds = 0
  /\ call.until_reference = 120

\* C20: classify returns working exactly when width > 0, height > 0 and
\* height/width < 1.4 (10*height < 14*width), and standing otherwise: for
\* every box with width <= 0 or height <= 0 and every box whose ratio is 1.4
\* or more.
C20_ClassifyThresholdExact ==
  (call.fn = "classify" /\ call.returned)
  => LET w == call.bbox[3] - call.bbox[1]
         h == call.bbox[4] - call.bbox[2]
     IN /\ call.result \in {"working", "standing"}
        /\ call.result = "working" <=> (w > 0 /\ h > 0 /\ 10 * h < 14 * w)
        /\ (w <= 0 \/ h <= 0) => call.result = "standing"
        /\ (w > 0 /\ h > 0 /\ 10 * h >= 14 * w) => call.result = "standing"

\* a box of 100 by 140, exactly at the threshold, was classified standing
C20_Witness ==
  /\ call.fn = "classify"
  /\ call.returned
  /\ call.bbox = <<10, 5, 110, 145>>
  /\ call.result = "standing"

\* C21: at stream end every live track with an open session started at s has
\* it closed with its own last known time e: the total grows by
\* elapsed_seconds(s, e), one WORKING_END with time e is logged for it, and
\* after the finalisation no live track is working or has a session start;
\* the report built afterwards has no period marked as ongoing.
C21_StreamEndClosesSessions ==
  [][/\ (pc = "read" /\ pc' = "export")
        => \A i \in DOMAIN tracked_persons :
             LET p == tracked_persons[i]
                 q == tracked_persons'[i]
                 mine == EventsAddedFor(events', Len(events) + 1, p.id, <<>>)
             IN /\ HasOpenSession(p)
                     => /\ q.total_working_seconds
                             = p.total_working_seconds
                               + _calculate_time_difference_in_seconds(
                                   p.current_working_session_start_time,
                                   p.last_ocr_time)
                        /\ Len(mine) = 1
                        /\ mine[1].event_type = "WORKING_END"
                        /\ mine[1].cctv_time_str = p.last_ocr_time
                /\ ~HasOpenSession(p)
                     => /\ q.total_working_seconds = p.total_working_seconds
                        /\ mine = <<>>
                /\ ~q.is_working
                /\ q.current_working_session_start_time = NoneStr
     /\ (pc = "export" /\ pc' = "done")
        => \A r \in DOMAIN rows' : \A n \in DOMAIN rows'[r].working_periods :
              rows'[r].working_periods[n][2] # "Ongoing (Video End)"]_vars

\* C22: the report has one row per identity: every identity the tracker
\* allocated during the stream (1 .. next_person_id - 1), also one whose
\* track was removed before the stream ended, has exactly one row, and the
\* row of a live track carries its in_time, out_time and total.
C22_OneRowPerIdentity ==
  pc = "done"
  => /\ \A id \in 1..(next_person_id - 1) :
           Cardinality({r \in DOMAIN rows : rows[r].person_id = id}) = 1
     /\ \A i \in DOMAIN tracked_persons : \E r \in DOMAIN rows :
           LET p == tracked_persons[i]
           IN /\ rows[r].person_id = p.id
              /\ rows[r].in_time = (IF p.in_time = NoneStr THEN NA ELSE p.in_time)
              /\ rows[r].out_time = (IF p.out_time = NoneStr THEN NA ELSE p.out_time)
              /\ rows[r].total_working
                   = <<p.total_working_seconds \div 3600,
                       (p.total_working_seconds % 3600) \div 60,
                       p.total_working_seconds % 60>>

\* C23: the core never raises: whatever the frames (none at all included),
\* the detections and the readings, run_office_tracking is reading a frame,
\* evaluating the tracks, finalising or done, and never in an error state.
C23_NeverRaises == pc \in {"read", "persons", "export", "done"}

\* the detection a track at centroid c takes among the free ones: the
\* nearest, the lowest index among equally near ones, if nearer than 70 px;
\* 0 when there is none
Nearest(c, dets, free) ==
  IF \E j \in free : Dist2(c, _get_centroid(dets[j].bbox)) < 70 * 70
  THEN CHOOSE j \in free :
         /\ Dist2(c, _get_centroid(dets[j].bbox)) < 70 * 70
         /\ \A m \in free :
               \/ Dist2(c, _get_centroid(dets[j].bbox))
                    < Dist2(c, _get_centroid(dets[m].bbox))
               \/ /\ Dist2(c, _get_centroid(dets[j].bbox))
                       = Dist2(c, _get_centroid(dets[m].bbox))
                  /\ j <= m
  ELSE 0

\* the greedy assignment: the detection index taken by each list position
RECURSIVE GreedyAssignment(_, _, _, _, _)
GreedyAssignment(persons, dets, i, consumed, taken) ==
  IF i > Len(persons) THEN taken
  ELSE LET j == Nearest(persons[i].centroid, dets, DOMAIN dets \ consumed)
       IN GreedyAssignment(persons, dets, i + 1, consumed \cup ({j} \ {0}),
                           Append(taken, j))

\* C24: association is the single-pass greedy assignment in list order: the
\* track at position i takes the nearest detection not taken by the
\* positions before it (lowest index among equally near ones) when it is
\* nearer than 70 px and stays unmatched otherwise; no detection is taken
\* twice, and every detection not taken gets a new identity.
C24_GreedyAssociationInListOrder ==
  [][(pc = "read" /\ pc' = "persons")
     => LET dets == detections'
            taken == GreedyAssignment(tracked_persons, dets, 1, {}, <<>>)
            hit == frames'[Len(frames')].hit
        IN /\ \A i \in DOMAIN tracked_persons :
                LET p == tracked_persons[i]
                IN IF taken[i] # 0
                   THEN /\ p.id \in hit
                        /\ \E n \in DOMAIN tracked_persons' :
                              /\ tracked_persons'[n].id = p.id
                              /\ tracked_persons'[n].bbox = dets[taken[i]].bbox
                              /\ tracked_persons'[n].missing_frames = 0
                   ELSE /\ p.id \notin hit
                        /\ \A n \in DOMAIN tracked_persons' :
                              tracked_persons'[n].id = p.id
                              => /\ tracked_persons'[n].bbox = p.bbox
                                 /\ tracked_persons'[n].missing_frames
                                      = p.missing_frames + 1
           /\ \A i, k \in DOMAIN tracked_persons :
                (i # k /\ taken[i] # 0) => taken[i] # taken[k]
           /\ next_person_id' - next_person_id
                = Len(dets) - Cardinality(hit)]_vars

\* two tracks and two detections that could have been paired off (each
\* track within 70 px of a detection of its own), but the first track took
\* the detection nearest to it and the second was left unmatched
C24_Witness ==
  /\ pc = "persons"
  /\ \E k \in DOMAIN frames :
        /\ k > 1
        /\ Len(frames[k - 1].persons) = 2
        /\ Len(frames[k].dets) = 2
        /\ Dist2(frames[k - 1].persons[1].centroid,
                 _get_centroid(frames[k].dets[2].bbox)) < 70 * 70
        /\ Dist2(frames[k - 1].persons[2].centroid,
                 _get_centroid(frames[k].dets[1].bbox)) < 70 * 70
        /\ frames[k].hit = {frames[k - 1].persons[1].id}
        /\ frames[k].persons[1].bbox = frames[k].dets[1].bbox
        /\ Len(frames[k].persons) = 3

\* C25: update_activity(new, t) with new different from the current
\* activity: with a session open (is_working and a start s) the total grows
\* by exactly elapsed_seconds(s, t) and the session is closed; then the
\* activity is new; when new is working the person is working with session
\* start t, otherwise it is not working and the closed session's start is
\* cleared. With no session open the total is unchanged.
C25_UpdateActivityOnChange ==
  [][(/\ call.fn = "update_activity"
      /\ call'.calls = call.calls + 1
      /\ call.person.activity # call.new_activity)
     => LET p == call.person
            q == call'.person
            t == IF call.calls = 0 THEN call.ocr_time ELSE call.ocr_time_2
        IN /\ q.activity = call.new_activity
           /\ q.total_working_seconds
                = IF p.is_working /\ p.current_working_session_start_time # NoneStr
                  THEN p.total_working_seconds
                       + _calculate_time_difference_in_seconds(
                           p.current_working_session_start_time, t)
                  ELSE p.total_working_seconds
           /\ IF call.new_activity = "working"
              THEN /\ q.is_working
                   /\ q.current_working_session_start_time = t
              ELSE /\ ~q.is_working
                   /\ (p.is_working /\ p.current_working_session_start_time # NoneStr)
                        => q.current_working_session_start_time = NoneStr
           /\ q.bbox = p.bbox /\ q.in_time = p.in_time /\ q.out_time = p.out_time
           /\ q.missing_frames = p.missing_frames
           /\ q.last_ocr_time = p.last_ocr_time]_vars

\* a working person with 120 seconds and a session open since 23:58:00 was
\* told to stand at 00:02: 240 seconds were added and the session is closed
C25_Witness ==
  /\ call.fn = "update_activity"
  /\ call.calls = 1
  /\ call.new_activity = "standing"
  /\ call.ocr_time = "00:02"
  /\ call.person.activity = "standing"
  /\ call.person.total_working_seconds = 360
  /\ ~call.person.is_working
  /\ call.person.current_working_session_start_time = NoneStr
  /\ Len(call.out) = 2

\* values of a sequence
Range(seq) == {seq[i] : i \in DOMAIN seq}

\* C26: every detection not taken by the association spawns exactly one
\* track in the same update: it has the detection's box, is standing, not
\* working, without session start or out_time, with total 0, missing
\* counter 0 and the call's reading and video time as last known ones; so
\* after every update the live tracks with missing counter 0 are as many as
\* the detections passed to it.
C26_UnmatchedDetectionSpawnsTrack ==
  [][(pc = "read" /\ pc' = "persons")
     => LET dets == detections'
            free == DOMAIN dets
                    \ Range(GreedyAssignment(tracked_persons, dets, 1, {}, <<>>))
            spawned == {n \in DOMAIN tracked_persons' :
                          tracked_persons'[n].id \notin Ids(tracked_persons)}
        IN /\ Cardinality(spawned) = Cardinality(free)
           /\ \A j \in free : \E n \in spawned :
                 tracked_persons'[n].bbox = dets[j].bbox
           /\ \A n \in spawned :
                 LET q == tracked_persons'[n]
                 IN /\ \E j \in free : q.bbox = dets[j].bbox
                    /\ q.centroid = <<(q.bbox[1] + q.bbox[3]) \div 2,
                                      (q.bbox[2] + q.bbox[4]) \div 2>>
                    /\ q.activity = "standing"
                    /\ ~q.is_working
                    /\ q.current_working_session_start_time = NoneStr
                    /\ q.out_time = NoneStr
                    /\ q.total_working_seconds = 0
                    /\ q.missing_frames = 0
                    /\ q.last_ocr_time = ocr_time'
                    /\ q.last_frame_time_sec = current_video_time_sec'
                    /\ \A m \in spawned : m # n => tracked_persons'[m].id # q.id
           /\ Cardinality({n \in DOMAIN tracked_persons' :
                             tracked_persons'[n].missing_frames = 0})
                = Len(dets)]_vars

\* a frame without reading brought two detections out of reach of the only
\* live track: it was left unmatched and two tracks were spawned
C26_Witness ==
  /\ pc = "persons"
  /\ ocr_time = NA
  /\ Len(detections) = 2
  /\ Len(tracked_persons) = 3
  /\ frames[Len(frames)].hit = {}
  /\ tracked_persons[1].missing_frames = 1
  /\ tracked_persons[2].id = 2 /\ tracked_persons[2].bbox = detections[1].bbox
  /\ tracked_persons[3].id = 3 /\ tracked_persons[3].bbox = detections[2].bbox
  /\ tracked_persons[3].last_ocr_time = NA

\* the classification of a box, as the specification words it
ClassOf(bbox) ==
  IF bbox[3] - bbox[1] > 0 /\ bbox[4] - bbox[2] > 0
     /\ 10 * (bbox[4] - bbox[2]) < 14 * (bbox[3] - bbox[1])
  THEN "working" ELSE "standing"

\* events of one kind among those a step appended for a person
CountOf(evs, type, details) ==
  Cardinality({k \in DOMAIN evs :
     evs[k].event_type = type /\ (details = "" \/ evs[k].details = details)})

\* C27: in the evaluation of a frame with video time above 16, a track gets
\* one ACTIVITY_CHANGE exactly when the classification of its box differs
\* from its stored activity, which then becomes the classification; one
\* WORKING_START iff it changed to working under an available reading; one
\* WORKING_END (stood up) iff it changed from working to standing under an
\* available reading. When the classification is the stored activity none
\* of these is logged, and the track keeps every field the other handlers of
\* the frame (last known time, OUT) do not write.
C27_ActivityEventsOnChange ==
  [][(pc = "persons" /\ current_video_time_sec > 16)
     => \A i \in DOMAIN tracked_persons :
          LET p == tracked_persons[i]
              q == tracked_persons'[i]
              c == ClassOf(p.bbox)
              changed == c # p.activity
              mine == EventsAddedFor(events', Len(events) + 1, p.id, <<>>)
          IN /\ CountOf(mine, "ACTIVITY_CHANGE", "") = (IF changed THEN 1 ELSE 0)
             /\ q.activity = c
             /\ CountOf(mine, "WORKING_START", "")
                  = (IF changed /\ c = "working" /\ ocr_time # NA THEN 1 ELSE 0)
             /\ CountOf(mine, "WORKING_END", "Person stopped working (stood up).")
                  = (IF changed /\ p.activity = "working" /\ c = "standing"
                        /\ ocr_time # NA
                     THEN 1 ELSE 0)
             /\ \A k \in DOMAIN mine :
                   mine[k].event_type \in {"ACTIVITY_CHANGE", "WORKING_START"}
                   => /\ mine[k].cctv_time_str = ocr_time
                      /\ mine[k].video_frame_time_sec = current_video_time_sec
             /\ (~changed /\ q.out_time = p.out_time)
                   => q = [p EXCEPT !.last_ocr_time =
                                      IF ocr_time # NA THEN ocr_time ELSE @]]_vars

\* a track became working on a frame without reading (ACTIVITY_CHANGE, no
\* WORKING_START) and stood up on a later frame with one (WORKING_END)
C27_Witness ==
  /\ pc = "read"
  /\ \E a, b \in DOMAIN events :
        /\ a < b
        /\ events[a].event_type = "ACTIVITY_CHANGE"
        /\ events[a].cctv_time_str = NA
        /\ events[a].details = "working"
        /\ events[b].event_type = "WORKING_END"
        /\ events[b].details = "Person stopped working (stood up)."
        /\ events[b].person_id = events[a].person_id
        /\ \A k \in DOMAIN events : events[k].event_type # "WORKING_START"

\* C28: an update call changes only geometry and staleness of a track it
\* matches: activity, is_working, session start, total, in_time and
\* out_time stay, the box is the detection's, the missing counter is 0 and
\* the last known time and video time are the call's. A track it does not
\* match keeps box, last known times, activity, in_time and out_time and
\* has its counter raised by one; without open session nothing else changes.
C28_UpdateTouchesGeometryOnly ==
  [][(pc = "read" /\ pc' = "persons")
     => LET taken == GreedyAssignment(tracked_persons, detections', 1, {}, <<>>)
        IN \A i \in DOMAIN tracked_persons : \A j \in DOMAIN tracked_persons' :
             LET p == tracked_persons[i]
                 q == tracked_persons'[j]
             IN q.id = p.id
                => IF p.id \in frames'[Len(frames')].hit
                   THEN /\ q = [p EXCEPT !.bbox = q.bbox,
                                         !.centroid = q.centroid,
                                         !.missing_frames = 0,
                                         !.last_ocr_time = ocr_time',
                                         !.last_frame_time_sec
                                            = current_video_time_sec']
                        /\ taken[i] # 0
                        /\ q.bbox = detections'[taken[i]].bbox
                        /\ q.centroid = <<(q.bbox[1] + q.bbox[3]) \div 2,
                                          (q.bbox[2] + q.bbox[4]) \div 2>>
                   ELSE /\ q.missing_frames = p.missing_frames + 1
                        /\ q.bbox = p.bbox /\ q.centroid = p.centroid
                        /\ q.last_ocr_time = p.last_ocr_time
                        /\ q.last_frame_time_sec = p.last_frame_time_sec
                        /\ q.activity = p.activity
                        /\ q.in_time = p.in_time /\ q.out_time = p.out_time
                        /\ ~HasOpenSession(p)
                             => q = [p EXCEPT !.missing_frames = @ + 1]]_vars

\* a working track with an open session was matched to a standing box on a
\* frame with a new reading: the update left it working, with its session
\* start, and took over box and reading
C28_Witness ==
  /\ pc = "persons"
  /\ \E i \in DOMAIN tracked_persons :
        LET q == tracked_persons[i]
        IN /\ q.id \in frames[Len(frames)].hit
           /\ q.activity = "working"
           /\ q.is_working
           /\ q.current_working_session_start_time = NA
           /\ q.bbox = BoxNearOutStand
           /\ ClassOf(q.bbox) = "standing"
           /\ q.missing_frames = 0
           /\ q.last_ocr_time = "00:02"

\* the identities of a list, in list order
RECURSIVE IdsInOrder(_, _)
IdsInOrder(persons, i) ==
  IF i > Len(persons) THEN <<>>
  ELSE <<persons[i].id>> \o IdsInOrder(persons, i + 1)

\* a list without the persons whose identity is not in keep
RECURSIVE Restrict(_, _, _)
Restrict(persons, i, keep) ==
  IF i > Len(persons) THEN <<>>
  ELSE (IF persons[i].id \in keep THEN <<persons[i].id>> ELSE <<>>)
       \o Restrict(persons, i + 1, keep)

\* the m-th smallest element of a set of numbers
Nth(S, m) == CHOOSE j \in S : Cardinality({x \in S : x <= j}) = m

\* C29: the live list keeps its order: the tracks that survive an update
\* are in the order they had before it, the tracks it spawns follow them in
\* the order of their detections, a removal does not reorder the others,
\* and no other step changes the identities of the list; the list is
\* always in increasing identity order.
C29_LiveListKeepsOrder ==
  [][/\ (pc = "read" /\ pc' = "persons")
        => LET dets == detections'
               free == DOMAIN dets
                       \ Range(GreedyAssignment(tracked_persons, dets, 1, {}, <<>>))
               kept == Restrict(tracked_persons, 1, Ids(tracked_persons'))
               n == Len(kept)
           IN /\ Len(tracked_persons') = n + Cardinality(free)
              /\ \A a \in 1..n : tracked_persons'[a].id = kept[a]
              /\ \A m \in 1..Cardinality(free) :
                    /\ tracked_persons'[n + m].id = next_person_id + m - 1
                    /\ tracked_persons'[n + m].bbox = dets[Nth(free, m)].bbox
     /\ ~(pc = "read" /\ pc' = "persons")
        => IdsInOrder(tracked_persons', 1) = IdsInOrder(tracked_persons, 1)
     /\ \A a, b \in DOMAIN tracked_persons' :
           a < b => tracked_persons'[a].id < tracked_persons'[b].id]_vars

\* the first of three tracks was removed; the two others, spawned together
\* by a frame with two detections, are left in their order
C29_Witness ==
  /\ pc = "persons"
  /\ Len(frames) > 2
  /\ IdsInOrder(frames[Len(frames) - 1].persons, 1) = <<1, 2, 3>>
  /\ IdsInOrder(tracked_persons, 1) = <<2, 3>>
  /\ tracked_persons[1].missing_frames = MAX_MISSING_FRAMES
  /\ \E k \in DOMAIN frames :
        /\ Len(frames[k].dets) = 2
        /\ frames[k].dets[1].bbox # frames[k].dets[2].bbox
        /\ tracked_persons[1].bbox = frames[k].dets[1].bbox
        /\ tracked_persons[2].bbox = frames[k].dets[2].bbox

\* C30: when a frame with video time above 16 has been evaluated, a live
\* track's stored activity is working exactly when it has an open session
\* (is_working and a session start): a track whose session a disappearance
\* or the exit closed and which is still classified as working has a session
\* open again.
C30_WorkingActivityHasOpenSession ==
  (pc = "read" /\ frame_idx > 0 /\ current_video_time_sec > 16)
  => \A i \in DOMAIN tracked_persons :
        (tracked_persons[i].activity = "working")
          <=> HasOpenSession(tracked_persons[i])

\* WORKING_START and WORKING_END of one person alternate from position k on,
\* given whether a WORKING_START is waiting for its WORKING_END
RECURSIVE Alternate(_, _, _, _)
Alternate(evs, k, id, started) ==
  IF k > Len(evs) THEN TRUE
  ELSE IF evs[k].person_id = id /\ evs[k].event_type = "WORKING_START"
       THEN ~started /\ Alternate(evs, k + 1, id, TRUE)
  ELSE IF evs[k].person_id = id /\ evs[k].event_type = "WORKING_END"
       THEN started /\ Alternate(evs, k + 1, id, FALSE)
  ELSE Alternate(evs, k + 1, id, started)

\* C31: in the event log the WORKING_START and WORKING_END events of one
\* identity alternate, beginning with WORKING_START: no WORKING_END without
\* a WORKING_START waiting for it, no two WORKING_END for one session.
C31_WorkingEventsAlternate ==
  \A id \in 1..(next_person_id - 1) : Alternate(events, 1, id, FALSE)

\* C32: the elapsed time is never negative for strings whose segments are
\* all integers, hour fields of 24 or more included: neither from such a
\* string to 00:02 nor from 00:02 to it.
C32_ElapsedNeverNegative ==
  (/\ call.fn = "parse_time_to_seconds"
   /\ call.returned
   /\ \A i \in DOMAIN call.segments : call.segments[i].numeric)
  => /\ call.until_reference >= 0
     /\ call.since_reference >= 0

\* C33: once a track has its out_time, its working time is final: no later
\* step opens a session for it (sets is_working or a session start) or
\* changes its total.
C33_AccountingFinalAfterOut ==
  [][\A i \in DOMAIN tracked_persons : \A j \in DOMAIN tracked_persons' :
       LET p == tracked_persons[i]
           q == tracked_persons'[j]
       IN (q.id = p.id /\ p.out_time # NoneStr)
          => /\ q.total_working_seconds = p.total_working_seconds
             /\ q.is_working => p.is_working
             /\ q.current_working_session_start_time
                  \in {p.current_working_session_start_time, NoneStr}]_vars

====
